---- MODULE Spec2Model ----
(***************************************************************************)
(* A model of the SLVNK backend's request-admission pipeline: the two      *)
(* access gates (authMiddleware, staticAdminMiddleware), the two multer    *)
(* upload pipelines, registration, login, admin-initiated creation, the    *)
(* record read, update and delete routes, and the authenticated search.    *)
(*                                                                         *)
(* Strings whose content the code inspects are sequences of one-character  *)
(* strings, so that toLowerCase, trim, split and the regular expressions   *)
(* are computed, not assumed.  Every await of a handler is a suspension    *)
(* point: a handler is one action per stretch of code between two store    *)
(* operations, and the store operation takes effect inside that action.    *)
(***************************************************************************)
EXTENDS Integers, Sequences, FiniteSets, TLC

\* Number of requests the model lets be in flight together (one per slot).
NumReq == 2
\* The clock runs from 0 to MaxTime days.
MaxTime == 1
\* expiresIn: process.env.JWT_EXPIRES_IN || "1d", in days.
TokenTTL == 1
\* limits.fileSize of both multer instances, in bytes (5 * 1024 * 1024).
FileSizeLimit == 5242880
\* minlength of the schema's password path.
PasswordMinLength == 6
\* Number of records in the populated collection the paginated reads run on.
PopulationSize == 5

Slots == 1..NumReq

-----------------------------------------------------------------------------
(* Strings *)

LowerChar(c) ==
  CASE c = "A" -> "a"
    [] c = "B" -> "b"
    [] c = "H" -> "h"
    [] c = "X" -> "x"
    [] OTHER -> c

\* String.prototype.toLowerCase
ToLowerCase(s) == [i \in 1..Len(s) |-> LowerChar(s[i])]

IsSpace(c) == c = " "

RECURSIVE TrimStart(_)
TrimStart(s) ==
  IF s /= <<>> /\ IsSpace(Head(s)) THEN TrimStart(Tail(s)) ELSE s

RECURSIVE TrimEnd(_)
TrimEnd(s) ==
  IF s /= <<>> /\ IsSpace(s[Len(s)]) THEN TrimEnd(SubSeq(s, 1, Len(s) - 1)) ELSE s

\* String.prototype.trim
Trim(s) == TrimEnd(TrimStart(s))

\* A JavaScript value used as a condition: undefined and "" are both falsy;
\* an absent string field is the empty sequence.
Falsy(s) == s = <<>>

\* /^\S+@\S+\.\S+$/ (the schema's match on email)
MatchesEmailRegex(s) ==
  /\ \A i \in 1..Len(s) : ~IsSpace(s[i])
  /\ \E i \in 2..Len(s) : \E j \in (i + 2)..(Len(s) - 1) :
       s[i] = "@" /\ s[j] = "."

\* The test new RegExp(needle, "i") makes against a string field: a
\* case-insensitive substring match (needles here hold no metacharacter).
RegexMatchI(needle, hay) ==
  \E i \in 1..(Len(hay) - Len(needle) + 1) :
    ToLowerCase(SubSeq(hay, i, i + Len(needle) - 1)) = ToLowerCase(needle)

\* String.prototype.split(sep)[k], pieces counted from 0; <<>> when the piece
\* is absent (undefined) or empty: both are falsy for the caller.
RECURSIVE SplitPieces(_, _)
SplitPieces(s, sep) ==
  IF \A i \in 1..Len(s) : s[i] /= sep
  THEN <<s>>
  ELSE LET i == CHOOSE k \in 1..Len(s) :
                  s[k] = sep /\ \A m \in 1..(k - 1) : s[m] /= sep
       IN  <<SubSeq(s, 1, i - 1)>> \o SplitPieces(SubSeq(s, i + 1, Len(s)), sep)

SplitAt(s, sep, k) ==
  LET p == SplitPieces(s, sep)
  IN  IF k + 1 <= Len(p) THEN p[k + 1] ELSE <<>>

\* A JavaScript number: NaN, or an integer.
NaN == [nan |-> TRUE, n |-> 0]
Num(n) == [nan |-> FALSE, n |-> n]

-----------------------------------------------------------------------------
(* Headers and identity tokens *)

\* The result of req.header(name) for a header that was not sent.
NoHeader == "<undefined>"

\* Values a client may send in X-Admin-Request.
XAdminValues == {NoHeader, "true", "True"}

\* The atoms of an Authorization header value: a space, a word, a token.
SP == [k |-> "sp"]
Word(w) == [k |-> "word", w |-> w]
Jwt(userId, role, exp, sig) ==
  [k |-> "jwt", userId |-> userId, role |-> role, exp |-> exp, sig |-> sig]

\* jwt.sign(payload, process.env.JWT_SECRET, { expiresIn })
JwtSign(userId, role, t) == Jwt(userId, role, t + TokenTTL, "ok")

\* req.user when no middleware set it.
NoUser == [userId |-> 0, role |-> "<undefined>"]

\* jwt.verify(token, process.env.JWT_SECRET): the token must be one
\* well-formed JWT, carry the server's signature and not be expired.
JwtVerifyOk(token, t) ==
  /\ Len(token) = 1
  /\ token[1].k = "jwt"
  /\ token[1].sig = "ok"
  /\ t < token[1].exp

JwtDecoded(token) == [userId |-> token[1].userId, role |-> token[1].role]

\* The same token with a signature the secret does not produce.
Forged(tok) == [tok EXCEPT !.sig = "bad"]

NoAuth == [present |-> FALSE, value |-> <<>>]
AuthHeader(v) == [present |-> TRUE, value |-> v]

\* Authorization headers a client may send, knowing the tokens in toks.
AuthValues(toks) ==
  {NoAuth, AuthHeader(<<Word("Bearer")>>), AuthHeader(<<Word("Bearer"), SP>>),
   AuthHeader(<<Word("Bearer"), SP, Word("garbage")>>)}
  \cup {AuthHeader(<<Word("Bearer"), SP, tok>>) : tok \in toks}
  \cup {AuthHeader(<<Word("Bearer"), SP, Forged(tok)>>) : tok \in toks}

\* req.header("Authorization")?.split(" ")[1]
BearerToken(auth) ==
  IF auth.present THEN SplitAt(auth.value, SP, 1) ELSE <<>>

-----------------------------------------------------------------------------
(* The user collection (models/User.js behind mongoose) *)

\* Sample strings; the addresses end in a top-level domain of two letters,
\* which the login route's isEmail() requires.
E1 == <<"a", "@", "x", ".", "c", "o">>
E1Variant == <<"A", "@", "X", ".", "c", "o", " ">>
E2 == <<"b", "@", "x", ".", "c", "o">>
EBad == <<"b", "x">>
M1 == <<"9", "1">>
M2 == <<"9", "2">>
Pw == <<"s", "e", "c", "r", "e", "t">>
Hindu == <<"H", "i">>

\* An identifier that cannot be cast to an ObjectId.
BadId == -1

\* lowercase: true, trim: true on the email path; mongoose applies a path's
\* setters to documents, to update payloads and to query conditions alike.
EmailSetter(e) == Trim(ToLowerCase(e))
\* trim: true on mobileNumber
MobileSetter(m) == Trim(m)

\* Values of the password path: a plaintext string, or bcrypt.hash(v, salt)
\* of such a value.
Plain(p) == [kind |-> "plain", of |-> p]
Bcrypt(v) == [kind |-> "bcrypt", of |-> v]

\* enum of the gender path; a value is a one-word string.
GenderEnum == {<<"Male">>, <<"Female">>, <<"Other">>}

\* new User({...}): the document before save, setters applied.
NewUser(email, password, mobileNumber, name, gender, religion) ==
  [email |-> EmailSetter(email), password |-> password,
   mobileNumber |-> MobileSetter(mobileNumber), name |-> Trim(name),
   gender |-> gender, religion |-> Trim(religion), role |-> "user",
   profilePicture |-> <<>>]

\* The schema's validators, run by save() before the pre("save") hook.
SchemaValid(doc) ==
  /\ ~Falsy(doc.email) /\ MatchesEmailRegex(doc.email)
  /\ doc.password.kind = "plain" => Len(doc.password.of) >= PasswordMinLength
  /\ ~Falsy(doc.mobileNumber)
  /\ ~Falsy(doc.name)
  /\ doc.gender \in GenderEnum

\* Variant: the schema declares no unique index.
UniqueIndexesAbsent(U, doc) == TRUE

\* unique: true on email and on mobileNumber: the store's two unique indexes.
UniqueIndexesAdmit(U, doc) ==
  \A u \in U : u.email /= doc.email /\ u.mobileNumber /= doc.mobileNumber

\* userSchema.pre("save") on a new document: isModified("password") holds
\* and the hook hashes whatever value the password path holds.
PreSaveHash(doc) == [doc EXCEPT !.password = Bcrypt(doc.password)]

\* document.save() of a new document: validation, the pre-save hook, then the
\* insert, which the unique indexes may refuse (E11000, a MongoServerError).
SaveError(U, doc) ==
  IF ~SchemaValid(doc) THEN "ValidationError"
  ELSE IF ~UniqueIndexesAdmit(U, PreSaveHash(doc)) THEN "MongoServerError"
  ELSE "none"

Inserted(U, doc, id) ==
  U \cup {PreSaveHash(doc) @@ [id |-> id]}

\* User.findOne({ $or: [{ email }, { mobileNumber }] }): the first match in
\* insertion order, {} when there is none.
FirstOf(S) == IF S = {} THEN {} ELSE {CHOOSE u \in S : \A v \in S : u.id <= v.id}

FindOneByEmailOrMobile(U, email, mobileNumber) ==
  FirstOf({u \in U : u.email = EmailSetter(email)
                     \/ u.mobileNumber = MobileSetter(mobileNumber)})

FindOneByEmail(U, email) == FirstOf({u \in U : u.email = EmailSetter(email)})

FindOneByMobile(U, mobileNumber) ==
  FirstOf({u \in U : u.mobileNumber = MobileSetter(mobileNumber)})

\* Casting an identifier to ObjectId fails for a malformed one (CastError).
CastsToObjectId(id) == id > 0

FindById(U, id) == {u \in U : u.id = id}

\* A document as a response serialises it when the password path is left
\* out: by select: false of the schema on a query, by .select("-password"),
\* or by delete obj.password on the plain object.
WithoutPassword(u) == [f \in DOMAIN u \ {"password"} |-> u[f]]

\* The collection found at start-up: the store outlives the server process.
U1 ==
  [id |-> 1, email |-> E1, password |-> Bcrypt(Plain(Pw)), mobileNumber |-> M1,
   name |-> <<"n">>, gender |-> <<"Male">>, religion |-> Hindu, role |-> "user",
   profilePicture |-> <<>>]

\* The i-th record of a populated collection: distinct emails and mobile
\* numbers, genders alternating, created in the order of the ids.
Member(i) ==
  [U1 EXCEPT !.id = i,
             !.email = <<<<"a", "b", "c", "d", "e", "f", "g">>[i]>> \o Tail(E1),
             !.mobileNumber = <<"9", <<"1", "2", "3", "4", "5", "6", "7">>[i]>>,
             !.gender = IF i % 2 = 1 THEN <<"Male">> ELSE <<"Female">>]

-----------------------------------------------------------------------------
(* Uploaded files *)

LowerLexeme(x) ==
  CASE x = "PNG" -> "png"
    [] x = "TXT" -> "txt"
    [] OTHER -> x

\* file.originalname.match(/\.(jpg|jpeg|png|gif)$/i); a name is a sequence of
\* lexemes such as <<"pic", ".", "PNG">>.
HasImageExtension(name) ==
  /\ Len(name) >= 2
  /\ name[Len(name) - 1] = "."
  /\ LowerLexeme(name[Len(name)]) \in {"jpg", "jpeg", "png", "gif"}

\* file.mimetype.startsWith("image/"); a content type is <<type, subtype>>.
MimeIsImage(mimetype) == mimetype[1] = "image"

\* path.extname(file.originalname)
ExtName(name) ==
  IF Len(name) >= 3 /\ name[Len(name) - 1] = "." THEN name[Len(name)] ELSE ""

NoUpload ==
  [present |-> FALSE, fieldname |-> "", originalname |-> <<>>,
   mimetype |-> <<"", "">>, size |-> 0]
Upload(fieldname, originalname, mimetype, size) ==
  [present |-> TRUE, fieldname |-> fieldname, originalname |-> originalname,
   mimetype |-> mimetype, size |-> size]

\* req.file when multer stored nothing.
NoFile == [dir |-> "", n |-> 0, ext |-> ""]

\* diskStorage's filename: fieldname-Date.now()-random.ext in the pipeline's
\* directory; the time and the random number are the request's own (n).
StoredFile(dir, n, upload) ==
  [dir |-> dir, n |-> n, ext |-> ExtName(upload.originalname)]

\* The path a record's profilePicture holds for a stored file.
PicturePath(f) == <<"/uploads/", f.dir, f.n, f.ext>>

-----------------------------------------------------------------------------
(* State *)

VARIABLES
  reqs,     \* per slot: the request, its position in its route, its response
  users,    \* the user collection
  nextId,   \* the next ObjectId the driver generates
  files,    \* the files present in upload storage
  unlinks,  \* files whose fs.unlink was called and has not run yet
  issued,   \* tokens signed with JWT_SECRET
  now       \* the clock, in days

vars == <<reqs, users, nextId, files, unlinks, issued, now>>

NoBody == [none |-> TRUE]

IdleReq ==
  [route |-> "none", pc |-> "idle", xAdmin |-> NoHeader, auth |-> NoAuth,
   body |-> NoBody, query |-> NoBody, paramId |-> 0, upload |-> NoUpload, file |-> NoFile,
   user |-> NoUser, validationError |-> FALSE, status |-> 0, message |-> "",
   token |-> {}, results |-> <<>>, total |-> 0, totalPages |-> Num(0),
   sent |-> {}, doc |-> {}, strict |-> FALSE, created |-> 0,
   gate |-> "pending", gateAt |-> 0, verified |-> FALSE, ran |-> FALSE,
   storeOps |-> 0]

Init ==
  /\ reqs = [s \in Slots |-> IdleReq]
  /\ users = {U1}
  /\ nextId = 2
  /\ files = {}
  /\ unlinks = {}
  /\ issued = {JwtSign(1, "user", 0)}
  /\ now = 0

\* res.status(status).json({ message }): the request is answered.
Respond(r, status, message) ==
  [r EXCEPT !.pc = "done", !.status = status, !.message = message]

\* next(err) with no error-handling route before it: the global handler of
\* server.js answers 500.
NextErr(r, name) == Respond(r, 500, name)

\* Slots are taken in order: which slot serves a request is immaterial.
SlotFree(s) ==
  /\ reqs[s].pc = "idle"
  /\ \A t \in Slots : t < s => reqs[t].pc /= "idle"

\* The middleware a route's definition puts before its handler.
FirstStage(route) ==
  CASE route = "register" -> "upload"
    [] route = "login" -> "handler"
    [] route \in {"adminCreate", "adminDelete", "adminGet"} -> "adminGate"
    [] OTHER -> "auth"

\* A request as it reaches the router.
Request(route, xAdmin, auth, body, query, paramId, upload) ==
  [IdleReq EXCEPT !.route = route, !.pc = FirstStage(route), !.xAdmin = xAdmin,
                  !.auth = auth, !.body = body, !.query = query,
                  !.paramId = paramId, !.upload = upload]

\* A request of the set Requests arrives.
Arrive(s, Requests) ==
  /\ SlotFree(s)
  /\ \E r \in Requests : reqs' = [reqs EXCEPT ![s] = r]
  /\ UNCHANGED <<users, nextId, files, unlinks, issued, now>>

\* Time passes.
Tick ==
  /\ now < MaxTime
  /\ now' = now + 1
  /\ UNCHANGED <<reqs, users, nextId, files, unlinks, issued>>

\* The callback of fs.unlink(path, cb) runs: the file is gone.
Unlink ==
  /\ \E f \in unlinks :
       /\ files' = files \ {f}
       /\ unlinks' = unlinks \ {f}
  /\ UNCHANGED <<reqs, users, nextId, issued, now>>

-----------------------------------------------------------------------------
(* The gates *)

\* What follows authMiddleware on a route.
AfterAuth(route) == IF route = "uploadPicture" THEN "upload" ELSE "handler"

\* The gate calls next(): the route goes on.
Admit(r, t) == [r EXCEPT !.gate = "next", !.gateAt = t, !.pc = AfterAuth(r.route)]

\* The gate answers the request itself.
Reject(r, t, status, message) ==
  Respond([r EXCEPT !.gate = "rejected", !.gateAt = t], status, message)

\* Variant: the admin header's value compared without regard to case.
AuthDecisionAnyCase(r, t) ==
  IF r.xAdmin \in {"true", "True"}
  THEN Admit(r, t)
  ELSE LET token == BearerToken(r.auth) IN
       IF Falsy(token)
       THEN Reject(r, t, 401, "No token or admin header, authorization denied")
       ELSE IF JwtVerifyOk(token, t)
            THEN Admit([r EXCEPT !.verified = TRUE, !.user = JwtDecoded(token)], t)
            ELSE Reject([r EXCEPT !.verified = TRUE], t, 401, "Token is not valid")

\* Variant: a token that is present is verified before the admin header is
\* looked at.
AuthDecisionTokenFirst(r, t) ==
  LET token == BearerToken(r.auth) IN
  IF ~Falsy(token)
  THEN IF JwtVerifyOk(token, t)
       THEN Admit([r EXCEPT !.verified = TRUE, !.user = JwtDecoded(token)], t)
       ELSE Reject([r EXCEPT !.verified = TRUE], t, 401, "Token is not valid")
  ELSE IF r.xAdmin = "true"
       THEN Admit(r, t)
       ELSE Reject(r, t, 401, "No token or admin header, authorization denied")

\* Variant: an expired token gets a message of its own.
AuthDecisionTellsExpiry(r, t) ==
  IF r.xAdmin = "true"
  THEN Admit(r, t)
  ELSE LET token == BearerToken(r.auth) IN
       IF Falsy(token)
       THEN Reject(r, t, 401, "No token or admin header, authorization denied")
       ELSE IF JwtVerifyOk(token, t)
            THEN Admit([r EXCEPT !.verified = TRUE, !.user = JwtDecoded(token)], t)
            ELSE IF Len(token) = 1 /\ token[1].k = "jwt" /\ token[1].sig = "ok"
                 THEN Reject([r EXCEPT !.verified = TRUE], t, 401, "Token expired")
                 ELSE Reject([r EXCEPT !.verified = TRUE], t, 401, "Token is not valid")

\* Variant: a verified token is admitted only while its subject's record
\* exists.
AuthDecisionReadsStore(r, t) ==
  IF r.xAdmin = "true"
  THEN Admit(r, t)
  ELSE LET token == BearerToken(r.auth) IN
       IF Falsy(token)
       THEN Reject(r, t, 401, "No token or admin header, authorization denied")
       ELSE IF JwtVerifyOk(token, t) /\ FindById(users, token[1].userId) /= {}
            THEN Admit([r EXCEPT !.verified = TRUE, !.user = JwtDecoded(token)], t)
            ELSE Reject([r EXCEPT !.verified = TRUE], t, 401, "Token is not valid")

\* middleware/authMiddleware.js
AuthDecision(r, t) ==
  IF r.xAdmin = "true"
  THEN Admit(r, t)
  ELSE LET token == BearerToken(r.auth) IN
       IF Falsy(token)
       THEN Reject(r, t, 401, "No token or admin header, authorization denied")
       ELSE IF JwtVerifyOk(token, t)
            THEN Admit([r EXCEPT !.verified = TRUE, !.user = JwtDecoded(token)], t)
            ELSE Reject([r EXCEPT !.verified = TRUE], t, 401, "Token is not valid")

authMiddleware(s) ==
  /\ reqs[s].pc = "auth"
  /\ reqs' = [reqs EXCEPT ![s] = AuthDecision(reqs[s], now)]
  /\ UNCHANGED <<users, nextId, files, unlinks, issued, now>>

\* Variant: the admin gate falls back to the token, as authMiddleware does.
AdminDecisionTokenFallback(r, t) ==
  IF r.xAdmin = "true" \/ JwtVerifyOk(BearerToken(r.auth), t)
  THEN [r EXCEPT !.gate = "next", !.gateAt = t, !.pc = "handler"]
  ELSE Reject(r, t, 403, "Admin privileges required")

\* middleware/staticAdminMiddleware.js
AdminDecision(r, t) ==
  IF ~(r.xAdmin = "true")
  THEN Reject(r, t, 403, "Admin privileges required")
  ELSE [r EXCEPT !.gate = "next", !.gateAt = t, !.pc = "handler"]

staticAdminMiddleware(s) ==
  /\ reqs[s].pc = "adminGate"
  /\ reqs' = [reqs EXCEPT ![s] = AdminDecision(reqs[s], now)]
  /\ UNCHANGED <<users, nextId, files, unlinks, issued, now>>

-----------------------------------------------------------------------------
(* The upload pipelines *)

\* multer(...).single("profileImage") on one request: nothing submitted, a
\* file under another field name (LIMIT_UNEXPECTED_FILE, raised before the
\* fileFilter is asked), a file the fileFilter refuses, a file past
\* limits.fileSize (LIMIT_FILE_SIZE; multer removes what it wrote), or a
\* stored file.
MulterOutcome(upload, accepted) ==
  IF ~upload.present THEN "none"
  ELSE IF upload.fieldname /= "profileImage" THEN "unexpected"
  ELSE IF ~accepted THEN "filtered"
  ELSE IF upload.size > FileSizeLimit THEN "tooLarge"
  ELSE "stored"

\* fileFilter of routes/authRoutes.js
RegisterFileFilter(upload) == MimeIsImage(upload.mimetype)

\* fileFilter of middleware/upload.js
PictureFileFilter(upload) == HasImageExtension(upload.originalname)

\* uploadProfilePic and its callback, the first middleware of POST /register.
RegisterUpload(s) ==
  LET r == reqs[s]
      out == MulterOutcome(r.upload, RegisterFileFilter(r.upload))
      f == StoredFile("profile-pictures", s, r.upload)
  IN
  /\ r.pc = "upload" /\ r.route = "register"
  /\ reqs' = [reqs EXCEPT ![s] =
       CASE out = "unexpected" -> Respond(r, 400, "File upload error.")
         [] out = "tooLarge" -> Respond(r, 400, "Image size cannot exceed 5MB.")
         [] out = "filtered" ->
              Respond(r, 400, "Not an image! Please upload only images.")
         [] out = "stored" -> [r EXCEPT !.pc = "handler", !.file = f]
         [] OTHER -> [r EXCEPT !.pc = "handler"]]
  /\ files' = IF out = "stored" THEN files \cup {f} ELSE files
  /\ UNCHANGED <<users, nextId, unlinks, issued, now>>

\* uploadMiddleware of middleware/upload.js, behind authMiddleware on
\* POST /me/upload-picture.
PictureUpload(s) ==
  LET r == reqs[s]
      out == MulterOutcome(r.upload, PictureFileFilter(r.upload))
      f == StoredFile("profile-pics", s, r.upload)
  IN
  /\ r.pc = "upload" /\ r.route = "uploadPicture"
  /\ reqs' = [reqs EXCEPT ![s] =
       CASE out = "filtered" ->
              Respond(r, 400, "Only image files (jpg, jpeg, png, gif) are allowed!")
         [] out = "tooLarge" ->
              Respond(r, 400, "File size cannot be larger than 5MB!")
         [] out = "unexpected" -> Respond(r, 400, "Unexpected field")
         [] out = "stored" -> [r EXCEPT !.pc = "handler", !.file = f]
         [] OTHER -> [r EXCEPT !.pc = "handler"]]
  /\ files' = IF out = "stored" THEN files \cup {f} ELSE files
  /\ UNCHANGED <<users, nextId, unlinks, issued, now>>

-----------------------------------------------------------------------------
(* POST /api/auth/register *)

\* The body of a registration or an admin-initiated creation.
UserBody(email, password, mobileNumber, name, gender) ==
  [email |-> email, password |-> password, mobileNumber |-> mobileNumber,
   name |-> name, gender |-> gender, dateOfBirth |-> <<"1990">>,
   city |-> <<"c">>, state |-> <<"s">>, country |-> <<"India">>,
   religion |-> <<>>]

\* "Basic check for essential fields"
RegisterMissesField(b) ==
  \/ Falsy(b.email) \/ Falsy(b.password) \/ Falsy(b.mobileNumber)
  \/ Falsy(b.name) \/ Falsy(b.gender) \/ Falsy(b.dateOfBirth)
  \/ Falsy(b.city) \/ Falsy(b.state) \/ Falsy(b.country)

\* The message of the existingUser branch.
ExistsMessage(existing, b) ==
  IF existing.email = ToLowerCase(b.email)
  THEN "An account with this email already exists."
  ELSE IF existing.mobileNumber = b.mobileNumber
       THEN "An account with this mobile number already exists."
       ELSE "User already exists."

\* Variant: the existingUser branch answers without deleting the file.
UnlinkOnExistingForgotten(r) == {}

\* fs.unlink(req.file.path, cb) in the existingUser branch, guarded by
\* if (req.file).
UnlinkOnExisting(r) == IF r.file /= NoFile THEN {r.file} ELSE {}

\* fs.unlink(req.file.path, cb) in the catch block, guarded by
\* if (req.file && err.name === "ValidationError").
UnlinkOnSaveError(r, err) ==
  IF r.file /= NoFile /\ err = "ValidationError" THEN {r.file} ELSE {}

\* From the handler's start to the answer of User.findOne.
RegisterPrecheck(s) ==
  LET r == [reqs[s] EXCEPT !.ran = TRUE]
      b == r.body
      existing == FindOneByEmailOrMobile(users, ToLowerCase(b.email), b.mobileNumber)
  IN
  /\ reqs[s].pc = "handler" /\ reqs[s].route = "register"
  /\ IF RegisterMissesField(b)
     THEN /\ reqs' = [reqs EXCEPT ![s] =
                Respond(r, 400, "Missing essential registration fields.")]
          /\ unlinks' = unlinks
     ELSE IF existing /= {}
     THEN /\ reqs' = [reqs EXCEPT ![s] =
                Respond([r EXCEPT !.storeOps = @ + 1], 400,
                        ExistsMessage(CHOOSE u \in existing : TRUE, b))]
          /\ unlinks' = unlinks \cup UnlinkOnExisting(r)
     ELSE /\ reqs' = [reqs EXCEPT ![s] = [r EXCEPT !.storeOps = @ + 1, !.pc = "save"]]
          /\ unlinks' = unlinks
  /\ UNCHANGED <<users, nextId, files, issued, now>>

\* new User({...}) of the registration, with the picture path when a file
\* was stored.
RegisterDoc(r) ==
  LET b == r.body
      doc == NewUser(ToLowerCase(b.email), Plain(b.password), b.mobileNumber,
                     b.name, b.gender, b.religion)
  IN  IF r.file /= NoFile
      THEN [doc EXCEPT !.profilePicture = PicturePath(r.file)]
      ELSE doc

\* newUser.save() and what follows it: the 201 with a token, or the catch.
RegisterSave(s) ==
  LET r == reqs[s]
      doc == RegisterDoc(r)
      err == SaveError(users, doc)
      tok == JwtSign(nextId, "user", now)
  IN
  /\ r.pc = "save" /\ r.route = "register"
  /\ IF err = "none"
     THEN /\ users' = Inserted(users, doc, nextId)
          /\ nextId' = nextId + 1
          /\ issued' = issued \cup {tok}
          /\ unlinks' = unlinks
          /\ reqs' = [reqs EXCEPT ![s] =
                Respond([r EXCEPT !.storeOps = @ + 1, !.token = {tok},
                                  !.created = nextId,
                                  !.sent = {WithoutPassword(
                                              PreSaveHash(doc) @@ [id |-> nextId])}],
                        201, "")]
     ELSE /\ unlinks' = unlinks \cup UnlinkOnSaveError(r, err)
          /\ reqs' = [reqs EXCEPT ![s] =
                IF err = "ValidationError"
                THEN Respond([r EXCEPT !.validationError = TRUE], 400,
                             "Validation failed. Please check your input.")
                ELSE Respond([r EXCEPT !.storeOps = @ + 1], 500,
                             "Server error during registration.")]
          /\ UNCHANGED <<users, nextId, issued>>
  /\ UNCHANGED <<files, now>>

-----------------------------------------------------------------------------
(* POST /api/auth/login *)

\* body("email").isEmail(): an address without white space whose domain ends
\* in a top-level domain of at least two characters.
IsEmail(e) ==
  /\ MatchesEmailRegex(e)
  /\ \E j \in 1..(Len(e) - 2) : e[j] = "." /\ \A k \in (j + 1)..Len(e) : e[k] /= "."

\* .normalizeEmail(): the address in lower case.
NormalizeEmail(e) == ToLowerCase(e)

\* bcrypt.compare(candidate, stored): whether stored is the hash of the
\* candidate string itself; a stored value that is no hash matches nothing.
BcryptCompare(candidate, stored) == stored = Bcrypt(Plain(candidate))

\* The validation chain, and the handler up to the answer of
\* User.findOne({ email }).select("+password").
LoginFind(s) ==
  LET r == [reqs[s] EXCEPT !.ran = TRUE]
      b == r.body
      found == FindOneByEmail(users, ToLowerCase(NormalizeEmail(b.email)))
  IN
  /\ reqs[s].pc = "handler" /\ reqs[s].route = "login"
  /\ reqs' = [reqs EXCEPT ![s] =
       IF ~IsEmail(b.email) \/ Falsy(b.password)
       THEN Respond([r EXCEPT !.validationError = TRUE], 400, "Validation failed")
       ELSE IF found = {}
       THEN Respond([r EXCEPT !.storeOps = @ + 1], 401, "Invalid email or password.")
       ELSE [r EXCEPT !.storeOps = @ + 1, !.pc = "compare", !.doc = found]]
  /\ UNCHANGED <<users, nextId, files, unlinks, issued, now>>

\* user.comparePassword(password), which reads the record again with its
\* password, and what follows it: the 401, or the token and the user.
LoginCompare(s) ==
  LET r == reqs[s]
      user == CHOOSE u \in r.doc : TRUE
      again == FindById(users, user.id)
      isMatch == \E u \in again : BcryptCompare(r.body.password, u.password)
      tok == JwtSign(user.id, user.role, now)
  IN
  /\ r.pc = "compare" /\ r.route = "login"
  /\ IF isMatch
     THEN /\ issued' = issued \cup {tok}
          /\ reqs' = [reqs EXCEPT ![s] =
                Respond([r EXCEPT !.storeOps = @ + 1, !.token = {tok},
                                  !.sent = {WithoutPassword(user)}], 200, "")]
     ELSE /\ issued' = issued
          /\ reqs' = [reqs EXCEPT ![s] =
                Respond([r EXCEPT !.storeOps = @ + 1], 401,
                        "Invalid email or password.")]
  /\ UNCHANGED <<users, nextId, files, unlinks, now>>

-----------------------------------------------------------------------------
(* /api/admin: POST /users, DELETE /users/:id *)

\* "Validate essential fields" of POST /admin/users
AdminCreateMissesField(b) ==
  \/ Falsy(b.name) \/ Falsy(b.email) \/ Falsy(b.password)
  \/ Falsy(b.mobileNumber) \/ Falsy(b.gender) \/ Falsy(b.dateOfBirth)
  \/ Falsy(b.city) \/ Falsy(b.state)

\* From the handler's start to the answer of User.findOne({ email }).
AdminCreateFindEmail(s) ==
  LET r == [reqs[s] EXCEPT !.ran = TRUE]
      b == r.body
  IN
  /\ reqs[s].pc = "handler" /\ reqs[s].route = "adminCreate"
  /\ reqs' = [reqs EXCEPT ![s] =
       IF AdminCreateMissesField(b)
       THEN Respond(r, 400, "Missing required fields")
       ELSE IF FindOneByEmail(users, b.email) /= {}
       THEN Respond([r EXCEPT !.storeOps = @ + 1], 400,
                    "User with this email already exists")
       ELSE [r EXCEPT !.storeOps = @ + 1, !.pc = "findMobile"]]
  /\ UNCHANGED <<users, nextId, files, unlinks, issued, now>>

\* The answer of User.findOne({ mobileNumber }).
AdminCreateFindMobile(s) ==
  LET r == reqs[s] IN
  /\ r.pc = "findMobile" /\ r.route = "adminCreate"
  /\ reqs' = [reqs EXCEPT ![s] =
       IF FindOneByMobile(users, r.body.mobileNumber) /= {}
       THEN Respond([r EXCEPT !.storeOps = @ + 1], 400,
                    "User with this mobile number already exists")
       ELSE [r EXCEPT !.storeOps = @ + 1, !.pc = "save"]]
  /\ UNCHANGED <<users, nextId, files, unlinks, issued, now>>

\* new User({...}) of the admin route: the password is hashed by the route.
AdminCreateDoc(r) ==
  LET b == r.body
  IN  NewUser(b.email, Bcrypt(Plain(b.password)), b.mobileNumber, b.name,
              b.gender, b.religion)

\* user.save() and what follows it.
AdminCreateSave(s) ==
  LET r == reqs[s]
      doc == AdminCreateDoc(r)
      err == SaveError(users, doc)
  IN
  /\ r.pc = "save" /\ r.route = "adminCreate"
  /\ IF err = "none"
     THEN /\ users' = Inserted(users, doc, nextId)
          /\ nextId' = nextId + 1
          /\ reqs' = [reqs EXCEPT ![s] =
                Respond([r EXCEPT !.storeOps = @ + 1, !.created = nextId,
                                  !.sent = {PreSaveHash(doc) @@ [id |-> nextId]}],
                        201, "User created successfully")]
     ELSE /\ reqs' = [reqs EXCEPT ![s] =
                IF err = "ValidationError"
                THEN Respond([r EXCEPT !.validationError = TRUE], 400,
                             "Validation error")
                ELSE NextErr([r EXCEPT !.storeOps = @ + 1], err)]
          /\ UNCHANGED <<users, nextId>>
  /\ UNCHANGED <<files, unlinks, issued, now>>

\* DELETE /admin/users/:id: User.findByIdAndDelete(req.params.id).
AdminDelete(s) ==
  LET r == [reqs[s] EXCEPT !.ran = TRUE] IN
  /\ reqs[s].pc = "handler" /\ reqs[s].route = "adminDelete"
  /\ IF ~CastsToObjectId(r.paramId)
     THEN /\ reqs' = [reqs EXCEPT ![s] = NextErr(r, "CastError")]
          /\ users' = users
     ELSE IF FindById(users, r.paramId) = {}
     THEN /\ reqs' = [reqs EXCEPT ![s] =
                Respond([r EXCEPT !.storeOps = @ + 1], 404, "User not found")]
          /\ users' = users
     ELSE /\ reqs' = [reqs EXCEPT ![s] =
                Respond([r EXCEPT !.storeOps = @ + 1,
                                  !.sent = {WithoutPassword(u) :
                                              u \in FindById(users, r.paramId)}],
                        200, "User deleted successfully")]
          /\ users' = users \ FindById(users, r.paramId)
  /\ UNCHANGED <<nextId, files, unlinks, issued, now>>

\* GET /admin/users/:id: User.findById(req.params.id), the password removed
\* from the plain object.
AdminGet(s) ==
  LET r == [reqs[s] EXCEPT !.ran = TRUE] IN
  /\ reqs[s].pc = "handler" /\ reqs[s].route = "adminGet"
  /\ reqs' = [reqs EXCEPT ![s] =
       IF ~CastsToObjectId(r.paramId)
       THEN Respond(r, 400, "Invalid user ID format")
       ELSE IF FindById(users, r.paramId) = {}
       THEN Respond([r EXCEPT !.storeOps = @ + 1], 404, "User not found")
       ELSE Respond([r EXCEPT !.storeOps = @ + 1,
                       !.sent = {WithoutPassword(u) : u \in FindById(users, r.paramId)}],
                    200, "")]
  /\ UNCHANGED <<users, nextId, files, unlinks, issued, now>>

-----------------------------------------------------------------------------
(* /api/profiles: PUT /:id, POST /me/upload-picture, GET /me *)

\* GET /:id: User.findById(req.params.id).select("-password").
GetById(s) ==
  LET r == [reqs[s] EXCEPT !.ran = TRUE] IN
  /\ reqs[s].pc = "handler" /\ reqs[s].route = "getById"
  /\ reqs' = [reqs EXCEPT ![s] =
       IF ~CastsToObjectId(r.paramId)
       THEN Respond(r, 400, "Invalid profile ID format")
       ELSE IF FindById(users, r.paramId) = {}
       THEN Respond([r EXCEPT !.storeOps = @ + 1], 404, "Profile not found")
       ELSE Respond([r EXCEPT !.storeOps = @ + 1,
                       !.sent = {WithoutPassword(u) : u \in FindById(users, r.paramId)}],
                    200, "")]
  /\ UNCHANGED <<users, nextId, files, unlinks, issued, now>>

\* An update payload is a record of the paths it sets.  Mongoose casts it
\* with the paths' setters; it runs neither the validators nor pre("save").
CastUpdate(payload) ==
  [f \in DOMAIN payload |->
     CASE f = "email" -> EmailSetter(payload[f])
       [] f = "mobileNumber" -> MobileSetter(payload[f])
       [] f = "password" -> Plain(payload[f])
       [] OTHER -> payload[f]]

ApplyUpdate(u, payload) ==
  LET c == CastUpdate(payload)
  IN  [f \in DOMAIN u |-> IF f \in DOMAIN c THEN c[f] ELSE u[f]]

\* User.findByIdAndUpdate(id, payload, { new: true }): "CastError",
\* "MongoServerError" (a unique index refuses the update), "notFound" or "ok".
UpdateOutcome(U, id, payload) ==
  IF ~CastsToObjectId(id) THEN "CastError"
  ELSE IF FindById(U, id) = {} THEN "notFound"
  ELSE LET u == CHOOSE x \in FindById(U, id) : TRUE
       IN  IF UniqueIndexesAdmit(U \ {u}, ApplyUpdate(u, payload))
           THEN "ok" ELSE "MongoServerError"

Updated(U, id, payload) ==
  LET u == CHOOSE x \in FindById(U, id) : TRUE
  IN  (U \ {u}) \cup {ApplyUpdate(u, payload)}

\* Variant: PUT /:id without the ownership check.
OwnershipNeverRefuses(r) == FALSE

\* req.user.userId !== req.params.id
OwnershipRefuses(r) == r.user.userId /= r.paramId

\* PUT /:id
PutById(s) ==
  LET r == [reqs[s] EXCEPT !.ran = TRUE]
      out == UpdateOutcome(users, r.paramId, r.body)
  IN
  /\ reqs[s].pc = "handler" /\ reqs[s].route = "putById"
  /\ IF r.user = NoUser
     THEN \* req.user.userId of undefined: a TypeError inside the try
          /\ reqs' = [reqs EXCEPT ![s] = NextErr(r, "TypeError")]
          /\ users' = users
     ELSE IF OwnershipRefuses(r)
     THEN /\ reqs' = [reqs EXCEPT ![s] = Respond(r, 403, "Unauthorized action")]
          /\ users' = users
     ELSE /\ reqs' = [reqs EXCEPT ![s] =
                CASE out = "CastError" ->
                       Respond(r, 400, "Invalid profile ID format")
                  [] out = "notFound" ->
                       Respond([r EXCEPT !.storeOps = @ + 1], 404, "Profile not found")
                  [] out = "ok" ->
                       Respond([r EXCEPT !.storeOps = @ + 1,
                                  !.sent = {WithoutPassword(ApplyUpdate(u, r.body)) :
                                              u \in FindById(users, r.paramId)}],
                               200, "")
                  [] OTHER -> NextErr([r EXCEPT !.storeOps = @ + 1], out)]
          /\ users' = IF out = "ok" THEN Updated(users, r.paramId, r.body) ELSE users
  /\ UNCHANGED <<nextId, files, unlinks, issued, now>>

\* The handler of POST /me/upload-picture.
UploadPicture(s) ==
  LET r == [reqs[s] EXCEPT !.ran = TRUE]
      isAdminRequest == r.xAdmin = "true"
      target == IF isAdminRequest THEN r.body.userId ELSE r.user.userId
      payload == [profilePicture |-> PicturePath(r.file)]
      out == UpdateOutcome(users, target, payload)
  IN
  /\ reqs[s].pc = "handler" /\ reqs[s].route = "uploadPicture"
  /\ IF r.file = NoFile
     THEN /\ reqs' = [reqs EXCEPT ![s] =
                Respond(r, 400, "No file uploaded or middleware error occurred.")]
          /\ users' = users
     ELSE IF isAdminRequest /\ r.body.userId = 0
     THEN /\ reqs' = [reqs EXCEPT ![s] =
                Respond(r, 400, "Admin upload request requires userId in body")]
          /\ users' = users
     ELSE IF ~isAdminRequest /\ (r.user = NoUser \/ r.user.userId = 0)
     THEN /\ reqs' = [reqs EXCEPT ![s] =
                Respond(r, 401, "User ID not found in token for standard upload")]
          /\ users' = users
     ELSE /\ reqs' = [reqs EXCEPT ![s] =
                CASE out = "CastError" ->
                       Respond(r, 400, "Invalid user ID format provided")
                  [] out = "notFound" ->
                       Respond([r EXCEPT !.storeOps = @ + 1], 404,
                               "User not found for picture update")
                  [] out = "ok" ->
                       Respond([r EXCEPT !.storeOps = @ + 1,
                                  !.sent = {WithoutPassword(ApplyUpdate(u, payload)) :
                                              u \in FindById(users, target)}],
                               200, "Profile picture uploaded successfully")
                  [] OTHER -> NextErr([r EXCEPT !.storeOps = @ + 1], out)]
          /\ users' = IF out = "ok" THEN Updated(users, target, payload) ELSE users
  /\ UNCHANGED <<nextId, files, unlinks, issued, now>>

\* The paths PUT /me copies from the body when they are defined.
PutMePaths == {"name", "religion"}

\* PUT /me up to the answer of User.findById(userId).  req.user.userId is read
\* outside the try block: for a request without req.user the async handler
\* rejects, which leaves the request without a response unless the router
\* forwards rejections to the error handler.
PutMeFind(s) ==
  LET r == [reqs[s] EXCEPT !.ran = TRUE]
      found == FindById(users, r.user.userId)
  IN
  /\ reqs[s].pc = "handler" /\ reqs[s].route = "putMe"
  /\ IF r.user = NoUser
     THEN \E forwarded \in BOOLEAN :
            reqs' = [reqs EXCEPT ![s] =
              IF forwarded THEN NextErr(r, "TypeError")
              ELSE [r EXCEPT !.pc = "unanswered"]]
     ELSE reqs' = [reqs EXCEPT ![s] =
            IF found = {}
            THEN Respond([r EXCEPT !.storeOps = @ + 1], 404, "User not found")
            ELSE [r EXCEPT !.storeOps = @ + 1, !.pc = "save", !.doc = found]]
  /\ UNCHANGED <<users, nextId, files, unlinks, issued, now>>

\* user.save() of the loaded document and what follows it: the modified
\* paths are validated and written to the record; the password was not
\* loaded and is not modified, so the pre-save hook hashes nothing.
PutMeSave(s) ==
  LET r == reqs[s]
      user == CHOOSE u \in r.doc : TRUE
      set == [f \in PutMePaths \cap DOMAIN r.body |-> Trim(r.body[f])]
      invalid == "name" \in DOMAIN set /\ Falsy(set.name)
      stored == FindById(users, user.id)
      Write(u) == [f \in DOMAIN u |-> IF f \in DOMAIN set THEN set[f] ELSE u[f]]
  IN
  /\ r.pc = "save" /\ r.route = "putMe"
  /\ IF invalid
     THEN /\ reqs' = [reqs EXCEPT ![s] =
                Respond([r EXCEPT !.validationError = TRUE], 400, "Validation error")]
          /\ users' = users
     ELSE IF stored = {}
     THEN /\ reqs' = [reqs EXCEPT ![s] =
                NextErr([r EXCEPT !.storeOps = @ + 1], "DocumentNotFoundError")]
          /\ users' = users
     ELSE /\ reqs' = [reqs EXCEPT ![s] =
                Respond([r EXCEPT !.storeOps = @ + 1,
                                  !.sent = {WithoutPassword(Write(user))}],
                        200, "Profile updated successfully")]
          /\ users' = (users \ stored) \cup {Write(u) : u \in stored}
  /\ UNCHANGED <<nextId, files, unlinks, issued, now>>

\* GET /me
GetMe(s) ==
  LET r == [reqs[s] EXCEPT !.ran = TRUE] IN
  /\ reqs[s].pc = "handler" /\ reqs[s].route = "getMe"
  /\ reqs' = [reqs EXCEPT ![s] =
       IF r.user = NoUser THEN NextErr(r, "TypeError")
       ELSE IF FindById(users, r.user.userId) = {}
       THEN Respond([r EXCEPT !.storeOps = @ + 1], 404, "User not found")
       ELSE Respond([r EXCEPT !.storeOps = @ + 1,
                       !.sent = {WithoutPassword(u) :
                                   u \in FindById(users, r.user.userId)}],
                    200, "")]
  /\ UNCHANGED <<users, nextId, files, unlinks, issued, now>>

-----------------------------------------------------------------------------
(* GET /api/profiles/search *)

IsDigit(c) == c \in {"0", "1", "2", "3", "4", "5", "6", "7", "8", "9"}

DigitValue(c) ==
  CASE c = "0" -> 0 [] c = "1" -> 1 [] c = "2" -> 2 [] c = "3" -> 3
    [] c = "4" -> 4 [] c = "5" -> 5 [] c = "6" -> 6 [] c = "7" -> 7
    [] c = "8" -> 8 [] OTHER -> 9

RECURSIVE DigitsPrefix(_, _)
\* The value of the longest prefix of digits of s, continuing from acc.
DigitsPrefix(s, acc) ==
  IF s /= <<>> /\ IsDigit(Head(s))
  THEN DigitsPrefix(Tail(s), 10 * acc + DigitValue(Head(s)))
  ELSE acc

\* parseInt(s, 10): leading white space, an optional sign, then digits.
ParseInt(s) ==
  LET t == TrimStart(s)
      neg == t /= <<>> /\ Head(t) = "-"
      d == IF t /= <<>> /\ Head(t) \in {"-", "+"} THEN Tail(t) ELSE t
  IN  IF d = <<>> \/ ~IsDigit(Head(d)) THEN NaN
      ELSE Num(IF neg THEN 0 - DigitsPrefix(d, 0) ELSE DigitsPrefix(d, 0))

\* The query of a search; an absent parameter is the empty string.
SearchQuery(gender, minAge, maxAge, location, religion, page, limit) ==
  [gender |-> gender, minAge |-> minAge, maxAge |-> maxAge,
   location |-> location, religion |-> religion, page |-> page, limit |-> limit]

\* page = 1 and limit = 10 by default, then parseInt(_, 10).
PageNum(q) == IF Falsy(q.page) THEN Num(1) ELSE ParseInt(q.page)
LimitNum(q) == IF Falsy(q.limit) THEN Num(10) ELSE ParseInt(q.limit)

\* Variant: the filter starts empty, without { _id: { $ne: req.user.userId } }.
MatchesFilterWithoutSelf(u, self, q, strict) ==
  /\ ~Falsy(q.gender) => u.gender = q.gender
  /\ ~Falsy(q.location) => strict
  /\ ~Falsy(q.religion) => RegexMatchI(q.religion, u.religion)
  /\ (~Falsy(q.minAge) \/ ~Falsy(q.maxAge)) => strict

\* Whether document u satisfies the filter the handler builds.  location
\* and age are no paths of the schema: with strictQuery mongoose drops such
\* a condition, without it the store matches it against a field no document
\* has.
MatchesFilter(u, self, q, strict) ==
  /\ u.id /= self
  /\ ~Falsy(q.gender) => u.gender = q.gender
  /\ ~Falsy(q.location) => strict
  /\ ~Falsy(q.religion) => RegexMatchI(q.religion, u.religion)
  /\ (~Falsy(q.minAge) \/ ~Falsy(q.maxAge)) => strict

Matching(U, self, q, strict) == {u \in U : MatchesFilter(u, self, q, strict)}

RECURSIVE NewestFirst(_)
\* .sort({ createdAt: -1 }): the ids of S, the newest document first.
NewestFirst(S) ==
  IF S = {} THEN <<>>
  ELSE LET u == CHOOSE x \in S : \A y \in S : y.id <= x.id
       IN  <<u.id>> \o NewestFirst(S \ {u})

\* Variant: the limit cuts the result before the skip is applied, in the
\* order the calls are written.
PageOfLimitThenSkip(seq, skip, limit) ==
  LET cut == IF limit = 0 \/ limit > Len(seq) THEN Len(seq) ELSE limit
  IN  SubSeq(seq, skip + 1, cut)

\* .limit(limit).skip(skip) on a sorted result; limit 0 is no limit.
PageOf(seq, skip, limit) ==
  LET last == IF limit = 0 \/ skip + limit > Len(seq) THEN Len(seq) ELSE skip + limit
  IN  SubSeq(seq, skip + 1, last)

\* The store refuses a skip or a limit that is no number, and a negative skip.
PagingRefused(q) ==
  \/ PageNum(q).nan \/ LimitNum(q).nan
  \/ (PageNum(q).n - 1) * LimitNum(q).n < 0

AbsInt(n) == IF n < 0 THEN 0 - n ELSE n

\* Math.ceil(count / limitNum): Infinity or NaN when limitNum is 0.
TotalPages(count, limit) ==
  IF limit = 0 THEN NaN
  ELSE IF limit > 0 THEN Num((count + limit - 1) \div limit)
  ELSE Num(0 - (count \div (0 - limit)))

\* From the handler's start to the answer of User.find(filter).
SearchFind(s) ==
  LET r == [reqs[s] EXCEPT !.ran = TRUE]
      q == r.query
  IN
  /\ reqs[s].pc = "handler" /\ reqs[s].route = "search"
  /\ \E strict \in BOOLEAN :
       reqs' = [reqs EXCEPT ![s] =
         IF r.user = NoUser THEN NextErr(r, "TypeError")
         ELSE IF PagingRefused(q) THEN NextErr(r, "MongoServerError")
         ELSE LET page == PageOf(NewestFirst(Matching(users, r.user.userId, q, strict)),
                                 (PageNum(q).n - 1) * LimitNum(q).n,
                                 AbsInt(LimitNum(q).n))
              IN  [r EXCEPT !.storeOps = @ + 1, !.pc = "count", !.strict = strict,
                            !.results = page,
                            !.sent = {WithoutPassword(u) :
                                        u \in {v \in users :
                                                 \E i \in 1..Len(page) : page[i] = v.id}}]]
  /\ UNCHANGED <<users, nextId, files, unlinks, issued, now>>

\* The answer of User.countDocuments(filter), and the response.
SearchCount(s) ==
  LET r == reqs[s] IN
  /\ r.pc = "count" /\ r.route = "search"
  /\ reqs' = [reqs EXCEPT ![s] =
       LET count == Cardinality(Matching(users, r.user.userId, r.query, r.strict))
       IN  Respond([r EXCEPT !.storeOps = @ + 1, !.total = count,
                             !.totalPages = TotalPages(count, LimitNum(r.query).n)],
                   200, "")]
  /\ UNCHANGED <<users, nextId, files, unlinks, issued, now>>

-----------------------------------------------------------------------------
(* Requests *)

PngUpload == Upload("profileImage", <<"pic", ".", "PNG">>, <<"image", "png">>, 1024)
TxtUpload == Upload("profileImage", <<"notes", ".", "txt">>, <<"text", "plain">>, 1024)
TxtAsImageUpload ==
  Upload("profileImage", <<"notes", ".", "txt">>, <<"image", "png">>, 1024)
PngAsTextUpload ==
  Upload("profileImage", <<"pic", ".", "png">>, <<"text", "plain">>, 1024)
BigUpload ==
  Upload("profileImage", <<"pic", ".", "png">>, <<"image", "png">>, FileSizeLimit + 1)
OtherFieldUpload == Upload("avatar", <<"pic", ".", "png">>, <<"image", "png">>, 1024)

Uploads ==
  {NoUpload, PngUpload, TxtUpload, TxtAsImageUpload, PngAsTextUpload, BigUpload,
   OtherFieldUpload}

Emails == {<<>>, E1, E1Variant, E2, EBad}
Mobiles == {M1, M2}

EmptyQuery == SearchQuery(<<>>, <<>>, <<>>, <<>>, <<>>, <<>>, <<>>)

\* Headers that show each outcome of a gate once: no credential, the admin
\* header, a token.
PlainHeaders(toks) ==
  {<<NoHeader, NoAuth>>, <<"true", NoAuth>>}
  \cup {<<NoHeader, AuthHeader(<<Word("Bearer"), SP, tok>>)>> : tok \in toks}

\* Requests to the routes behind authMiddleware: GET /me under every kind of
\* header, the other routes under the plain ones.
GateRequests(toks) ==
  {Request("getMe", x, a, NoBody, NoBody, 0, NoUpload) :
     x \in XAdminValues, a \in AuthValues(toks)}
  \cup {Request("putById", h[1], h[2], [name |-> <<"m">>], NoBody, 1, NoUpload) :
     h \in PlainHeaders(toks)}
  \cup {Request("search", h[1], h[2], NoBody, EmptyQuery, 0, NoUpload) :
     h \in PlainHeaders(toks)}
  \cup {Request("uploadPicture", h[1], h[2], [userId |-> 1], NoBody, 0, PngUpload) :
     h \in PlainHeaders(toks)}

\* Requests to the routes under /api/admin: a creation and a deletion under
\* every kind of header, deletions of other ids by an admin client.
AdminRequests(toks) ==
  {Request("adminCreate", x, a, UserBody(E2, Pw, M2, <<"n">>, <<"Female">>),
           NoBody, 0, NoUpload) : x \in XAdminValues, a \in AuthValues(toks)}
  \cup {Request("adminDelete", x, a, NoBody, NoBody, 1, NoUpload) :
     x \in XAdminValues, a \in AuthValues(toks)}
  \cup {Request("adminDelete", "true", NoAuth, NoBody, NoBody, i, NoUpload) :
     i \in {2, BadId}}

\* Registrations: every sample email and mobile number, with and without
\* an image.
RegisterRequests ==
  {Request("register", NoHeader, NoAuth, UserBody(e, Pw, m, <<"n">>, <<"Female">>),
           NoBody, 0, u) : e \in Emails, m \in Mobiles, u \in {NoUpload, PngUpload}}

\* Admin-initiated creations by an admin client.
AdminCreateRequests ==
  {Request("adminCreate", "true", NoAuth, UserBody(e, Pw, m, <<"n">>, <<"Female">>),
           NoBody, 0, NoUpload) : e \in {E1Variant, E2}, m \in Mobiles}

\* Updates of a record by its owner, changing its email or mobile number.
UpdateRequests(toks) ==
  {Request("putById", NoHeader, AuthHeader(<<Word("Bearer"), SP, tok>>), b, NoBody,
           tok.userId, NoUpload) :
     tok \in toks, b \in {[email |-> E1Variant], [email |-> E2], [mobileNumber |-> M2]}}

\* The registration of one more user.
NewcomerRequests ==
  {Request("register", NoHeader, NoAuth, UserBody(E2, Pw, M2, <<"n">>, <<"Female">>),
           NoBody, 0, NoUpload)}

\* Registrations that differ in the attachment only.
RegisterUploadRequests ==
  {Request("register", NoHeader, NoAuth, UserBody(E2, Pw, M2, <<"n">>, <<"Female">>),
           NoBody, 0, u) : u \in Uploads}

\* Picture uploads by a token holder and by an admin client.
PictureRequests(toks) ==
  {Request("uploadPicture", NoHeader, AuthHeader(<<Word("Bearer"), SP, tok>>),
           [userId |-> 0], NoBody, 0, u) : tok \in toks, u \in Uploads}
  \cup {Request("uploadPicture", "true", NoAuth, [userId |-> i], NoBody, 0, u) :
     i \in {0, 1}, u \in {PngUpload, TxtUpload}}

\* Searches: every combination of present and absent filters.
SearchRequests(toks) ==
  {Request("search", NoHeader, AuthHeader(<<Word("Bearer"), SP, tok>>), NoBody,
           SearchQuery(g, mn, mx, l, rl, pg, lm), 0, NoUpload) :
     tok \in toks, g \in {<<>>, <<"Female">>}, mn \in {<<>>, <<"2", "0">>},
     mx \in {<<>>, <<"3", "0">>}, l \in {<<>>, <<"c">>}, rl \in {<<>>, <<"h", "I">>},
     pg \in {<<>>, <<"2">>}, lm \in {<<>>, <<"1">>}}
  \cup {Request("search", "true", NoAuth, NoBody, EmptyQuery, 0, NoUpload)}

\* Searches by the holder of a token that differ in the gender filter and in
\* the paging parameters.
PageRequests(toks) ==
  {Request("search", NoHeader, AuthHeader(<<Word("Bearer"), SP, tok>>), NoBody,
           SearchQuery(g, <<>>, <<>>, <<>>, <<>>, pg, lm), 0, NoUpload) :
     tok \in toks, g \in {<<>>, <<"Female">>}, pg \in {<<>>, <<"2">>, <<"3">>},
     lm \in {<<>>, <<"1">>, <<"2">>}}
  \cup {Request("search", NoHeader, AuthHeader(<<Word("Bearer"), SP, tok>>), NoBody,
           SearchQuery(<<>>, <<>>, <<>>, <<>>, <<>>, <<"0">>, <<"2">>), 0, NoUpload) :
       tok \in toks}

Pw2 == <<"h", "u", "n", "t", "e", "r">>

\* Logins with a known or unknown address and a right, wrong or empty
\* password.
LoginRequests ==
  {Request("login", NoHeader, NoAuth, [email |-> e, password |-> p], NoBody, 0,
           NoUpload) : e \in {E1, E1Variant, E2, EBad}, p \in {Pw, Pw2, <<>>}}

\* PUT /:id by the owner with a payload that carries a password.
PasswordUpdateRequests(toks) ==
  {Request("putById", NoHeader, AuthHeader(<<Word("Bearer"), SP, tok>>),
           [password |-> Pw2], NoBody, tok.userId, NoUpload) : tok \in toks}

\* PUT /me by a token holder and by an admin client.
PutMeRequests(toks) ==
  {Request("putMe", h[1], h[2], b, NoBody, 0, NoUpload) :
     h \in PlainHeaders(toks), b \in {[name |-> <<"m", " ">>], [name |-> <<" ">>]}}

\* Requests that write, reference or orphan an image: a registration with
\* an image, picture uploads for an existing, an absent and a malformed
\* target, and admin deletions.
FileRequests(toks) ==
  {Request("register", NoHeader, NoAuth, UserBody(E2, Pw, M2, <<"n">>, <<"Female">>),
           NoBody, 0, PngUpload)}
  \cup {Request("uploadPicture", NoHeader, AuthHeader(<<Word("Bearer"), SP, tok>>),
                 [userId |-> 0], NoBody, 0, PngUpload) : tok \in toks}
  \cup {Request("uploadPicture", "true", NoAuth, [userId |-> i], NoBody, 0, PngUpload) :
         i \in {1, 2, BadId}}
  \cup {Request("adminDelete", "true", NoAuth, NoBody, NoBody, i, NoUpload) :
         i \in {1, 2}}

\* Requests to the routes that read req.user or take a record identifier,
\* by a token holder and by an admin client, and the registration of one
\* more user.
ProfileRequests(toks) ==
  {Request(route, h[1], h[2], NoBody, NoBody, 0, NoUpload) :
     route \in {"getMe", "putMe"}, h \in PlainHeaders(toks)}
  \cup {Request("getById", "true", NoAuth, NoBody, NoBody, i, NoUpload) :
         i \in {1, BadId}}
  \cup {Request("putById", h[1], h[2], [role |-> "admin"], NoBody, i, NoUpload) :
         h \in PlainHeaders(toks), i \in {1, 2, BadId}}
  \cup {Request(route, "true", NoAuth, NoBody, NoBody, i, NoUpload) :
         route \in {"adminGet", "adminDelete"}, i \in {1, BadId}}
  \cup {Request("uploadPicture", "true", NoAuth, [userId |-> BadId], NoBody, 0,
                 PngUpload)}
  \cup NewcomerRequests

-----------------------------------------------------------------------------
(* Specifications *)

\* Every route and every request of the model.
Next ==
  \/ \E s \in Slots :
       Arrive(s, GateRequests(issued) \cup AdminRequests(issued)
                 \cup RegisterRequests \cup AdminCreateRequests
                 \cup UpdateRequests(issued) \cup RegisterUploadRequests
                 \cup PictureRequests(issued) \cup SearchRequests(issued)
                 \cup LoginRequests \cup PasswordUpdateRequests(issued)
                 \cup PutMeRequests(issued) \cup FileRequests(issued)
                 \cup ProfileRequests(issued))
  \/ \E s \in Slots :
       \/ authMiddleware(s)
       \/ staticAdminMiddleware(s)
       \/ RegisterUpload(s)
       \/ PictureUpload(s)
       \/ RegisterPrecheck(s)
       \/ RegisterSave(s)
       \/ LoginFind(s)
       \/ LoginCompare(s)
       \/ AdminCreateFindEmail(s)
       \/ AdminCreateFindMobile(s)
       \/ AdminCreateSave(s)
       \/ AdminDelete(s)
       \/ AdminGet(s)
       \/ GetById(s)
       \/ PutById(s)
       \/ UploadPicture(s)
       \/ GetMe(s)
       \/ PutMeFind(s)
       \/ PutMeSave(s)
       \/ SearchFind(s)
       \/ SearchCount(s)
  \/ Unlink
  \/ Tick

Spec == Init /\ [][Next]_vars

\* The routes behind authMiddleware under every kind of header, while time
\* passes.
NextGate ==
  \/ \E s \in Slots : Arrive(s, GateRequests(issued))
  \/ \E s \in Slots :
       \/ authMiddleware(s)
       \/ PictureUpload(s)
       \/ PutById(s)
       \/ UploadPicture(s)
       \/ GetMe(s)
       \/ SearchFind(s)
       \/ SearchCount(s)
  \/ Tick

SpecGate == Init /\ [][NextGate]_vars

\* The routes under /api/admin under every kind of header.
NextAdmin ==
  \/ \E s \in Slots : Arrive(s, AdminRequests(issued))
  \/ \E s \in Slots :
       \/ staticAdminMiddleware(s)
       \/ AdminCreateFindEmail(s)
       \/ AdminCreateFindMobile(s)
       \/ AdminCreateSave(s)
       \/ AdminDelete(s)

SpecAdmin == Init /\ [][NextAdmin]_vars

\* Everything that writes an email or a mobile number: registrations, admin
\* creations and owners' updates, interleaved.
NextReg ==
  \/ \E s \in Slots :
       Arrive(s, RegisterRequests \cup AdminCreateRequests \cup UpdateRequests(issued))
  \/ \E s \in Slots :
       \/ authMiddleware(s)
       \/ staticAdminMiddleware(s)
       \/ RegisterUpload(s)
       \/ RegisterPrecheck(s)
       \/ RegisterSave(s)
       \/ AdminCreateFindEmail(s)
       \/ AdminCreateFindMobile(s)
       \/ AdminCreateSave(s)
       \/ PutById(s)
  \/ Unlink

SpecReg == Init /\ [][NextReg]_vars

\* The two upload pipelines under every kind of attachment.
NextUpload ==
  \/ \E s \in Slots : Arrive(s, RegisterUploadRequests \cup PictureRequests(issued))
  \/ \E s \in Slots :
       \/ authMiddleware(s)
       \/ RegisterUpload(s)
       \/ PictureUpload(s)
       \/ RegisterPrecheck(s)
       \/ RegisterSave(s)
       \/ UploadPicture(s)
  \/ Unlink

SpecUpload == Init /\ [][NextUpload]_vars

\* Searches under every combination of filters, while registrations add
\* records.
NextSearch ==
  \/ \E s \in Slots : Arrive(s, SearchRequests(issued) \cup NewcomerRequests)
  \/ \E s \in Slots :
       \/ authMiddleware(s)
       \/ RegisterUpload(s)
       \/ RegisterPrecheck(s)
       \/ RegisterSave(s)
       \/ SearchFind(s)
       \/ SearchCount(s)

SpecSearch == Init /\ [][NextSearch]_vars

\* A server started on a collection of PopulationSize records.
InitPopulated ==
  /\ reqs = [s \in Slots |-> IdleReq]
  /\ users = {Member(i) : i \in 1..PopulationSize}
  /\ nextId = PopulationSize + 1
  /\ files = {}
  /\ unlinks = {}
  /\ issued = {JwtSign(1, "user", 0)}
  /\ now = 0

\* Paginated searches over a collection nothing writes to.
NextPage ==
  \/ \E s \in Slots : Arrive(s, PageRequests(issued))
  \/ \E s \in Slots :
       \/ authMiddleware(s)
       \/ SearchFind(s)
       \/ SearchCount(s)

SpecPage == InitPopulated /\ [][NextPage]_vars

\* Everything that writes or reads a password: both creation paths, the two
\* update routes and the login.
NextAccount ==
  \/ \E s \in Slots :
       Arrive(s, NewcomerRequests \cup AdminCreateRequests \cup LoginRequests
                 \cup PasswordUpdateRequests(issued) \cup PutMeRequests(issued))
  \/ \E s \in Slots :
       \/ authMiddleware(s)
       \/ staticAdminMiddleware(s)
       \/ RegisterUpload(s)
       \/ RegisterPrecheck(s)
       \/ RegisterSave(s)
       \/ AdminCreateFindEmail(s)
       \/ AdminCreateFindMobile(s)
       \/ AdminCreateSave(s)
       \/ LoginFind(s)
       \/ LoginCompare(s)
       \/ PutById(s)
       \/ PutMeFind(s)
       \/ PutMeSave(s)

SpecAccount == Init /\ [][NextAccount]_vars

\* Everything that writes a file or a profilePicture path, and the deletion
\* of records.
NextFiles ==
  \/ \E s \in Slots : Arrive(s, FileRequests(issued))
  \/ \E s \in Slots :
       \/ authMiddleware(s)
       \/ staticAdminMiddleware(s)
       \/ RegisterUpload(s)
       \/ RegisterPrecheck(s)
       \/ RegisterSave(s)
       \/ PictureUpload(s)
       \/ UploadPicture(s)
       \/ AdminDelete(s)
  \/ Unlink

SpecFiles == Init /\ [][NextFiles]_vars

\* One step of the request in slot s on a profile or admin route.
ProfileStep(s) ==
  \/ authMiddleware(s)
  \/ staticAdminMiddleware(s)
  \/ RegisterUpload(s)
  \/ RegisterPrecheck(s)
  \/ RegisterSave(s)
  \/ PictureUpload(s)
  \/ UploadPicture(s)
  \/ GetMe(s)
  \/ PutMeFind(s)
  \/ PutMeSave(s)
  \/ GetById(s)
  \/ PutById(s)
  \/ AdminGet(s)
  \/ AdminDelete(s)

\* The profile and admin routes while records are created, changed and
\* deleted and time passes.
NextProfiles ==
  \/ \E s \in Slots : Arrive(s, ProfileRequests(issued))
  \/ \E s \in Slots : ProfileStep(s)
  \/ Tick

SpecProfiles == Init /\ [][NextProfiles]_vars

-----------------------------------------------------------------------------
(* Properties of the gates *)

\* The request went through the gate named first on its route.
PastGate(r, stage) ==
  r.pc \notin {"idle", stage} /\ FirstStage(r.route) = stage

\* No Authorization header, or one with nothing after "Bearer".
NoCredential(r) ==
  \/ ~r.auth.present
  \/ r.auth.value \in {<<Word("Bearer")>>, <<Word("Bearer"), SP>>}

\* The header is "Bearer <atom>".
CarriesToken(r) ==
  /\ r.auth.present
  /\ Len(r.auth.value) = 3
  /\ r.auth.value[1] = Word("Bearer")
  /\ r.auth.value[2] = SP

TokenAtom(r) == r.auth.value[3]

\* C1: on a route behind authMiddleware, a request without a token and
\* without X-Admin-Request: true is answered 401 "No token or admin header,
\* authorization denied" by the gate, and its handler never runs.
C1_NoCredentialRejected ==
  \A s \in Slots :
    LET r == reqs[s] IN
    (PastGate(r, "auth") /\ NoCredential(r) /\ r.xAdmin /= "true")
      => /\ r.pc = "done"
         /\ r.gate = "rejected"
         /\ r.status = 401
         /\ r.message = "No token or admin header, authorization denied"
         /\ ~r.ran

C1_Witness ==
  \E s \in Slots :
    /\ PastGate(reqs[s], "auth")
    /\ reqs[s].auth = AuthHeader(<<Word("Bearer"), SP>>)
    /\ reqs[s].xAdmin = "True"
    /\ reqs[s].status = 401

\* C2: a request with X-Admin-Request: true is let through by authMiddleware
\* whatever its Authorization header, and its token is never verified.
C2_AdminHeaderTakesPrecedence ==
  \A s \in Slots :
    LET r == reqs[s] IN
    (PastGate(r, "auth") /\ r.xAdmin = "true")
      => r.gate = "next" /\ ~r.verified

C2_Witness ==
  \E s \in Slots :
    /\ PastGate(reqs[s], "auth")
    /\ reqs[s].xAdmin = "true"
    /\ CarriesToken(reqs[s])
    /\ TokenAtom(reqs[s]).k = "jwt" /\ TokenAtom(reqs[s]).sig = "bad"
    /\ reqs[s].ran

\* The token was signed by the server and had expired when the gate ran.
ExpiredAtGate(r) ==
  /\ CarriesToken(r)
  /\ TokenAtom(r).k = "jwt"
  /\ TokenAtom(r).sig = "ok"
  /\ TokenAtom(r).exp <= r.gateAt

\* The token is no JWT, or carries a signature that is not the server's.
InvalidAtGate(r) ==
  /\ CarriesToken(r)
  /\ \/ TokenAtom(r).k = "word"
     \/ TokenAtom(r).k = "jwt" /\ TokenAtom(r).sig = "bad"

\* C3: without the admin header, a request with an expired token and one with
\* a malformed or wrongly signed token get the same answer, status 401 with
\* the same message, and neither handler runs.
C3_ExpiredAndInvalidAlike ==
  \A s1, s2 \in Slots :
    LET r1 == reqs[s1]
        r2 == reqs[s2]
    IN
    (/\ PastGate(r1, "auth") /\ r1.xAdmin /= "true" /\ ExpiredAtGate(r1)
     /\ PastGate(r2, "auth") /\ r2.xAdmin /= "true" /\ InvalidAtGate(r2))
      => /\ r1.status = 401 /\ r2.status = 401
         /\ r1.message = r2.message
         /\ r1.pc = "done" /\ r2.pc = "done"
         /\ ~r1.ran /\ ~r2.ran

C3_Witness ==
  \E s1, s2 \in Slots :
    /\ PastGate(reqs[s1], "auth") /\ reqs[s1].xAdmin /= "true"
    /\ ExpiredAtGate(reqs[s1])
    /\ PastGate(reqs[s2], "auth") /\ reqs[s2].xAdmin /= "true"
    /\ InvalidAtGate(reqs[s2])

\* C4: on a route under /api/admin, a request without X-Admin-Request: true
\* is answered 403 by the gate, whatever its Authorization header; no admin
\* handler runs and the store is neither read nor written for it.
C4_AdminRoutesNeedHeader ==
  \A s \in Slots :
    LET r == reqs[s] IN
    (PastGate(r, "adminGate") /\ r.xAdmin /= "true")
      => /\ r.pc = "done"
         /\ r.gate = "rejected"
         /\ r.status = 403
         /\ ~r.ran
         /\ r.storeOps = 0

C4_Witness ==
  \E s \in Slots :
    /\ PastGate(reqs[s], "adminGate")
    /\ reqs[s].xAdmin /= "true"
    /\ CarriesToken(reqs[s])
    /\ TokenAtom(reqs[s]) \in issued
    /\ reqs[s].gateAt < TokenAtom(reqs[s]).exp
    /\ reqs[s].status = 403

-----------------------------------------------------------------------------
(* Properties of the registration *)

\* The request is a registration that has been answered.
RegistrationDone(r) == r.route = "register" /\ r.pc = "done"

\* The file the request uploaded is gone, or its deletion is under way.
RolledBack(r) == r.file \notin files \/ r.file \in unlinks

\* The messages of the 400 that reports an existing email or mobile number.
ConflictMessages ==
  {"An account with this email already exists.",
   "An account with this mobile number already exists.",
   "User already exists."}

\* The email, as the store would hold it, belongs to a committed record.
EmailTaken(e) == \E u \in users : u.email = Trim(ToLowerCase(e))

\* C5: a registration that stored a file and is answered with anything but
\* 201 does not leave that file in storage: the file is deleted, or its
\* deletion has been asked for.
C5_EveryErrorPathRollsBack ==
  \A s \in Slots :
    LET r == reqs[s] IN
    (RegistrationDone(r) /\ r.status /= 201 /\ r.file /= NoFile) => RolledBack(r)

\* The pre-check of a registration that is complete, carries a stored image
\* and names an email some committed record holds.
PrecheckOfTakenEmail(s) ==
  /\ reqs[s].route = "register" /\ reqs[s].pc = "handler"
  /\ reqs'[s].pc /= "handler"
  /\ reqs[s].file /= NoFile
  /\ ~RegisterMissesField(reqs[s].body)
  /\ EmailTaken(reqs[s].body.email)

\* C6: a complete registration with a stored image whose email belongs to a
\* committed record is answered 400 with a conflict message, creates no
\* record, and asks for the deletion of its file at once; once that deletion
\* has run the file is not in storage.
C6_TakenEmailRollsBack ==
  /\ [][\A s \in Slots :
          PrecheckOfTakenEmail(s)
            => /\ reqs'[s].pc = "done"
               /\ reqs'[s].status = 400
               /\ reqs'[s].message \in ConflictMessages
               /\ users' = users
               /\ reqs[s].file \in unlinks']_vars
  /\ [](\A s \in Slots :
         LET r == reqs[s] IN
         (RegistrationDone(r) /\ r.status = 400 /\ r.message \in ConflictMessages
          /\ r.file /= NoFile)
           => r.created = 0 /\ RolledBack(r))

C6_Witness ==
  \E s \in Slots :
    LET r == reqs[s] IN
    /\ RegistrationDone(r)
    /\ r.body.email = E1Variant /\ EmailTaken(E1Variant)
    /\ r.status = 400
    /\ r.file /= NoFile /\ r.file \notin files /\ r.file \notin unlinks
    /\ \A f \in files : f.n /= s

\* C7: of two answered registrations with the same email, one of which got
\* 201, the one has a token and the other got 400 and its image rolled back.
C7_RaceLoserGetsConflict ==
  \A s1, s2 \in Slots :
    LET r1 == reqs[s1]
        r2 == reqs[s2]
    IN
    (/\ s1 /= s2 /\ RegistrationDone(r1) /\ RegistrationDone(r2)
     /\ Trim(ToLowerCase(r1.body.email)) = Trim(ToLowerCase(r2.body.email))
     /\ r1.status = 201)
      => /\ r1.token /= {}
         /\ r2.status = 400
         /\ r2.file /= NoFile => RolledBack(r2)

\* C8: no two records of the collection share an email, a mobile number or
\* an id.
C8_EmailAndMobileUnique ==
  \A u, v \in users :
    u /= v => /\ u.email /= v.email
              /\ u.mobileNumber /= v.mobileNumber
              /\ u.id /= v.id

\* Two writers of one email or mobile number both passed their existence
\* checks, and the store refused the second.
C8_Witness ==
  \E s1, s2 \in Slots :
    /\ s1 /= s2
    /\ reqs[s1].created /= 0
    /\ reqs[s2].pc = "done" /\ reqs[s2].status = 500
    /\ reqs[s2].route \in {"register", "adminCreate"}
    /\ Cardinality(users) = 2

-----------------------------------------------------------------------------
(* Properties of the upload pipelines and of the search *)

\* The request's attachment went through the route's multer middleware.
ThroughUpload(r) ==
  /\ r.route \in {"register", "uploadPicture"}
  /\ r.pc \notin {"idle", "auth", "upload"}
  /\ r.route = "uploadPicture" => r.gate = "next"
  /\ r.upload.present /\ r.upload.fieldname = "profileImage"

\* C9: in both pipelines a file whose name does not end in an image
\* extension is answered with a 4xx, whatever content type is declared;
\* nothing is stored and the handler does not run.
C9_NonImageExtensionRejected ==
  \A s \in Slots :
    LET r == reqs[s] IN
    (ThroughUpload(r) /\ ~HasImageExtension(r.upload.originalname))
      => /\ r.pc = "done"
         /\ r.status \in 400..499
         /\ ~r.ran
         /\ r.file = NoFile
         /\ \A f \in files : f.n /= s

\* The request was admitted with the token its header carries.
AdmittedByToken(r) == r.xAdmin /= "true" /\ CarriesToken(r)

-----------------------------------------------------------------------------
(* Properties of the paginated search *)

\* C11: over an unchanging collection, a search with page >= 1 and
\* limit >= 1 returns exactly the matching records ranked (page-1)*limit+1
\* to page*limit, the newest first, in that order; total is the number of
\* matching records and totalPages is ceil(total / limit).
C11_PageIsRankedSlice ==
  \A s \in Slots :
    LET r == reqs[s]
        p == PageNum(r.query).n
        l == LimitNum(r.query).n
        M == Matching(users, r.user.userId, r.query, r.strict)
        Rank(u) == Cardinality({v \in M : v.id > u.id}) + 1
    IN  (/\ r.route = "search" /\ r.pc = "done" /\ r.user /= NoUser
         /\ ~PageNum(r.query).nan /\ ~LimitNum(r.query).nan /\ p >= 1 /\ l >= 1)
          => /\ r.status = 200
             /\ \A u \in M :
                  (\E i \in 1..Len(r.results) : r.results[i] = u.id)
                    <=> Rank(u) \in ((p - 1) * l + 1)..(p * l)
             /\ \A i \in 1..Len(r.results) :
                  \E u \in M : u.id = r.results[i] /\ Rank(u) = (p - 1) * l + i
             /\ r.total = Cardinality(M)
             /\ ~r.totalPages.nan
             /\ r.totalPages.n * l >= r.total
             /\ (r.totalPages.n - 1) * l < r.total

\* A second page of two records, with more records on a later page.
C11_Witness ==
  \E s \in Slots :
    LET r == reqs[s] IN
    /\ r.route = "search" /\ r.pc = "done" /\ r.status = 200
    /\ PageNum(r.query) = Num(2) /\ LimitNum(r.query) = Num(1)
    /\ Len(r.results) = 1 /\ r.total > 2 /\ r.totalPages.n = r.total

-----------------------------------------------------------------------------
(* Properties of passwords *)

\* C12: no response of any operation carries the password path of a user
\* record.
C12_NoResponseCarriesPassword ==
  \A s \in Slots : \A d \in reqs[s].sent : "password" \notin DOMAIN d

\* C13: every stored password is the bcrypt hash of a plaintext password,
\* never the plaintext itself, whatever creations and updates ran.
C13_StoredPasswordIsHash ==
  \A u \in users : u.password.kind = "bcrypt" /\ u.password.of.kind = "plain"

RECURSIVE PlainOf(_)
\* The plaintext a stored password value was computed from.
PlainOf(v) == IF v.kind = "plain" THEN v.of ELSE PlainOf(v.of)

\* C19: a login with the email of a record that a creation path committed
\* passes verification and is issued a token when it gives the password the
\* record was created with, and is answered 401 when it gives another one.
C19_CreateThenLogin ==
  [][\A s \in Slots :
       LET r == reqs[s] IN
       /\ (/\ r.route = "login" /\ r.pc = "handler" /\ reqs'[s].pc /= "handler"
           /\ ~Falsy(r.body.password)
           /\ \E u \in users : u.email = r.body.email)
            => reqs'[s].pc = "compare"
       /\ (r.route = "login" /\ r.pc = "compare" /\ reqs'[s].pc = "done")
            => \A u \in users :
                 (u \in r.doc /\ u.password.kind = "bcrypt")
                   => IF PlainOf(u.password) = r.body.password
                      THEN reqs'[s].status = 200 /\ reqs'[s].token /= {}
                      ELSE reqs'[s].status = 401 /\ reqs'[s].token = {}]_vars

-----------------------------------------------------------------------------
(* Properties of stored files *)

\* No request is in flight and no deletion of a file is pending.
Quiescent ==
  /\ \A s \in Slots : reqs[s].pc \in {"idle", "done"}
  /\ unlinks = {}

\* C14: in every quiescent state each stored file is the profilePicture of
\* exactly one record, and each non-empty profilePicture names a stored
\* file.
C14_FilesAndRecordsAgree ==
  Quiescent =>
    /\ \A f \in files :
         Cardinality({u \in users : u.profilePicture = PicturePath(f)}) = 1
    /\ \A u \in users :
         ~Falsy(u.profilePicture) => \E f \in files : u.profilePicture = PicturePath(f)

-----------------------------------------------------------------------------
(* Properties of the profile and admin routes *)

\* C15: a handler behind authMiddleware runs only with an identity context
\* (subject id and role) attached to the request.
C15_HandlerHasIdentity ==
  \A s \in Slots :
    (reqs[s].ran /\ FirstStage(reqs[s].route) = "auth") => reqs[s].user /= NoUser

\* C16: authMiddleware decides from the headers and the clock alone: it
\* admits exactly the admin header and the tokens that verify at that time,
\* whatever the collection holds, and reads or writes nothing in the store.
C16_GateIgnoresAccountState ==
  [][\A s \in Slots :
       (reqs[s].pc = "auth" /\ reqs'[s].pc /= "auth")
         => /\ users' = users
            /\ reqs'[s].storeOps = reqs[s].storeOps
            /\ reqs'[s].gate = "next"
                 <=> \/ reqs[s].xAdmin = "true"
                     \/ JwtVerifyOk(BearerToken(reqs[s].auth), now)]_vars

\* A token admitted after an admin deleted its subject's record.
C16_Witness ==
  \E s \in Slots :
    /\ reqs[s].gate = "next" /\ reqs[s].verified
    /\ FindById(users, reqs[s].user.userId) = {}
    /\ \E t \in Slots :
         /\ reqs[t].route = "adminDelete" /\ reqs[t].status = 200
         /\ reqs[t].paramId = reqs[s].user.userId

\* The identifier a request names a record by, 0 when it names none.
RecordKey(r) ==
  CASE r.route \in {"getById", "putById", "adminGet", "adminDelete"} -> r.paramId
    [] r.route = "uploadPicture" /\ r.xAdmin = "true" -> r.body.userId
    [] OTHER -> 0

\* C17: a request whose identifier cannot be cast to a record key is
\* answered 400 by its handler.
C17_MalformedIdIs400 ==
  \A s \in Slots :
    (reqs[s].ran /\ reqs[s].pc = "done" /\ RecordKey(reqs[s]) < 0)
      => reqs[s].status = 400

\* C18: PUT /:id changes no record but the one the path names, and that one
\* only for the holder of a token whose subject is that record; a token
\* holder naming another record is answered 403.
C18_PutByIdTouchesOwnRecordOnly ==
  [][\A s \in Slots :
       LET r == reqs[s] IN
       (r.route = "putById" /\ r.pc = "handler" /\ reqs'[s].pc = "done")
         => /\ \A u \in users : u.id /= r.paramId => u \in users'
            /\ {u.id : u \in users'} = {u.id : u \in users}
            /\ (r.user /= NoUser /\ r.user.userId /= r.paramId)
                 => reqs'[s].status = 403 /\ users' = users
            /\ users' /= users => r.user /= NoUser /\ r.user.userId = r.paramId]_vars

\* A token holder was refused the update of another, existing record.
C18_Witness ==
  \E s \in Slots :
    LET r == reqs[s] IN
    /\ r.route = "putById" /\ r.pc = "done" /\ r.status = 403 /\ r.verified
    /\ FindById(users, r.paramId) /= {}
    /\ r.user.userId /= r.paramId

\* C20: a request a gate admitted is answered, or is at a point from which
\* its route goes on; an answered request takes no further step.
C20_AdmittedRequestIsAnswered ==
  \A s \in Slots :
    /\ reqs[s].gate = "next" => (reqs[s].pc = "done" \/ ENABLED ProfileStep(s))
    /\ reqs[s].pc = "done" => ~ENABLED ProfileStep(s)

=============================================================================
